---- MODULE Spec2Model ----
(***************************************************************************)
(* Model of skana_backend.py: the polling loop (main), the per-cycle event *)
(* detector (process_matches) with its two module-level caches             *)
(* (notified_events, previous_scores), and the bet evaluator (evaluate_bet).*)
(*                                                                         *)
(* Strings that the code takes apart (selection codes) are sequences of    *)
(* one-character strings; strings the code only compares are TLA+ strings. *)
(* An optional value (a number or None) is the sequence << >> or << n >>.   *)
(*                                                                         *)
(* The lists a cycle fetches are inputs. The device list is drawn when it  *)
(* is fetched. The matches and the tickets (and a bet's selection) are     *)
(* drawn element by element, when process_matches first reads them: what   *)
(* is never read is left open. Spec forgets the tickets once read; under   *)
(* SpecReplay they are kept (log, tail), so that the next cycle can be     *)
(* handed the very same lists again. SpecEval is one call of evaluate_bet. *)
(***************************************************************************)
EXTENDS Integers, Sequences, FiniteSets, TLC

\* ---------------------------------------------------------------- bounds
\* Largest goal count of one side in a snapshot of the polling model.
MaxScore == 1
\* Bets processed against a match (lines 173-253) in one run under Spec.
MaxSteps == 3
\* The same under SpecReplay, not counting the bets of lists fetched again.
MaxKeptSteps == 2
\* Largest goal count of one side handed to evaluate_bet in the evaluator model.
MaxEvalScore == 2
\* Longest text after the "CS" prefix, and longest unknown code, in the evaluator model.
MaxSuffixLen == 3
\* Devices of one fetched list.
MaxDevices == 2
\* Bet-processing steps in a run of the model with failing sends.
MaxSendSteps == 2
\* Bet-processing steps in a run of the model of the loop's progress.
MaxLiveSteps == 2

\* ------------------------------------------------- Python string helpers
Digits == {"0", "1", "2", "3", "4", "5", "6", "7", "8", "9"}

DigitVal(c) ==
    CASE c = "0" -> 0 [] c = "1" -> 1 [] c = "2" -> 2 [] c = "3" -> 3
      [] c = "4" -> 4 [] c = "5" -> 5 [] c = "6" -> 6 [] c = "7" -> 7
      [] c = "8" -> 8 [] c = "9" -> 9

\* s[i..] (1-based), the empty sequence when i > Len(s).
Drop(s, i) == SubSeq(s, i, Len(s))

\* str.startswith
StartsWith(s, p) == Len(s) >= Len(p) /\ SubSeq(s, 1, Len(p)) = p

\* str.replace(old, ''): every non-overlapping occurrence of old, left to right.
RECURSIVE Remove(_, _)
Remove(s, old) ==
    IF s = << >> THEN << >>
    ELSE IF StartsWith(s, old) THEN Remove(Drop(s, Len(old) + 1), old)
    ELSE << s[1] >> \o Remove(Drop(s, 2), old)

\* str.split(sep) for a one-character sep: always at least one part.
RECURSIVE Split(_, _)
Split(s, sep) ==
    IF \A i \in 1..Len(s) : s[i] # sep THEN << s >>
    ELSE LET k == CHOOSE i \in 1..Len(s) : s[i] = sep /\ \A j \in 1..(i - 1) : s[j] # sep
         IN  << SubSeq(s, 1, k - 1) >> \o Split(Drop(s, k + 1), sep)

\* The characters int() drops around a number in an ASCII text: blank, tab,
\* line feed, carriage return, form feed and vertical tab (the last written
\* as the character itself, TLA+ having no escape for it). Texts with
\* characters outside ASCII are not in the model.
Whitespace == {" ", "\t", "\n", "\r", "\f", ""}

\* The whitespace int() strips from the left and from the right of its text.
RECURSIVE StripLeft(_)
StripLeft(s) == IF s # << >> /\ s[1] \in Whitespace THEN StripLeft(Drop(s, 2)) ELSE s

RECURSIVE StripRight(_)
StripRight(s) ==
    IF s # << >> /\ s[Len(s)] \in Whitespace
    THEN StripRight(SubSeq(s, 1, Len(s) - 1)) ELSE s

\* The digits-and-underscores body int() accepts: digits, with single
\* underscores only between digits.
IsIntBody(b) ==
    /\ b # << >>
    /\ \A i \in 1..Len(b) : b[i] \in Digits \cup {"_"}
    /\ b[1] \in Digits
    /\ b[Len(b)] \in Digits
    /\ \A i \in 1..(Len(b) - 1) : ~(b[i] = "_" /\ b[i + 1] = "_")

RECURSIVE DecimalValue(_, _)
DecimalValue(b, acc) ==
    IF b = << >> THEN acc
    ELSE IF b[1] = "_" THEN DecimalValue(Drop(b, 2), acc)
    ELSE DecimalValue(Drop(b, 2), 10 * acc + DigitVal(b[1]))

\* int(text): [raises |-> TRUE] stands for ValueError.
IntParse(text) ==
    LET t    == StripRight(StripLeft(text))
        sign == IF t # << >> /\ t[1] \in {"+", "-"} THEN t[1] ELSE ""
        body == IF sign = "" THEN t ELSE Drop(t, 2)
    IN  IF IsIntBody(body)
        THEN [raises |-> FALSE,
              value  |-> IF sign = "-" THEN 0 - DecimalValue(body, 0)
                                       ELSE DecimalValue(body, 0)]
        ELSE [raises |-> TRUE, value |-> 0]

\* ------------------------------------------------------------ evaluate_bet
Returns(b) == [raises |-> FALSE, ret |-> b]
Raises == [raises |-> TRUE, ret |-> FALSE]

\* A variant of ExactScore that compares each side with the other side's number.
ExactScoreSwapped(selection, home_score, away_score) ==
    LET parts == Split(Remove(selection, << "C", "S" >>), "-")
    IN  IF Len(parts) = 2
        THEN LET expected_home == IntParse(parts[1])
                 expected_away == IntParse(parts[2])
             IN  IF expected_home.raises \/ expected_away.raises THEN Raises
                 ELSE Returns(home_score = expected_away.value
                              /\ away_score = expected_home.value)
        ELSE Returns(FALSE)

\* The "Resultado exacto" branch, entered when selection.startswith('CS').
ExactScore(selection, home_score, away_score) ==
    LET exact_score == Remove(selection, << "C", "S" >>)
        parts == Split(exact_score, "-")
    IN  IF Len(parts) = 2
        THEN LET expected_home == IntParse(parts[1])
                 expected_away == IntParse(parts[2])
             IN  IF expected_home.raises \/ expected_away.raises THEN Raises
                 ELSE Returns(home_score = expected_home.value
                              /\ away_score = expected_away.value)
        ELSE Returns(FALSE)

\* A variant of DefaultResult: an unmatched code wins.
DefaultWon == Returns(TRUE)

\* The value evaluate_bet returns when no branch matches.
DefaultResult == Returns(FALSE)

\* evaluate_bet(selection, home_score, away_score, total_goals); the
\* comparisons with 1.5, 2.5, 3.5 are made exact by doubling both sides.
evaluate_bet(selection, home_score, away_score, total_goals) ==
    CASE selection = << "1" >> -> Returns(home_score > away_score)
      [] selection = << "X" >> -> Returns(home_score = away_score)
      [] selection = << "2" >> -> Returns(away_score > home_score)
      [] selection = << "1", "X" >> -> Returns(home_score >= away_score)
      [] selection = << "X", "2" >> -> Returns(away_score >= home_score)
      [] selection = << "1", "2" >> -> Returns(home_score # away_score)
      [] selection = << "O", "1", ".", "5" >> -> Returns(2 * total_goals > 3)
      [] selection = << "O", "2", ".", "5" >> -> Returns(2 * total_goals > 5)
      [] selection = << "O", "3", ".", "5" >> -> Returns(2 * total_goals > 7)
      [] selection = << "U", "1", ".", "5" >> -> Returns(2 * total_goals < 3)
      [] selection = << "U", "2", ".", "5" >> -> Returns(2 * total_goals < 5)
      [] selection = << "U", "3", ".", "5" >> -> Returns(2 * total_goals < 7)
      [] selection = << "B", "T", "T", "S", "_", "Y" >> ->
            Returns(home_score > 0 /\ away_score > 0)
      [] selection = << "B", "T", "T", "S", "_", "N" >> ->
            Returns(home_score = 0 \/ away_score = 0)
      [] selection = << "H", "1", "-", "1" >> -> Returns((home_score - 1) > away_score)
      [] selection = << "H", "1", "+", "1" >> -> Returns((home_score + 1) > away_score)
      [] selection = << "H", "2", "-", "1" >> -> Returns(away_score - 1 > home_score)
      [] selection = << "H", "2", "+", "1" >> -> Returns(away_score + 1 > home_score)
      [] OTHER ->
            IF StartsWith(selection, << "C", "S" >>)
            THEN ExactScore(selection, home_score, away_score)
            ELSE DefaultResult

\* ------------------------------------------------------- the polling model
\* Match identifiers of the polling model (football-data.org ids are positive
\* integers); a bet's matchId of 0 stands for a falsy matchId (missing, None, 0).
MatchIds == {1, 2}

\* A matchId that no snapshot holds.
OtherId == 3

\* Match statuses of a snapshot: the four the query asks for, and one other.
MatchStatuses == {"SCHEDULED", "IN_PLAY", "LIVE", "PAUSED", "FINISHED"}

\* Ticket statuses as stored: an open ticket's, and the two line 160 compares
\* with (the spec's OPEN, WON and LOST).
TicketStatuses == {"pending", "won", "lost"}

\* Push tokens.
Tokens == {"tokA", "tokB"}

\* The 'score' object of a match: isNull for "score": null, else the four
\* numbers the code reads, each << n >> or << >> (null, or the key missing).
ScoreObject(isNull, fh, fa, hh, ha) ==
    [isNull |-> isNull, ftHome |-> fh, ftAway |-> fa, htHome |-> hh, htAway |-> ha]

NullScore == ScoreObject(TRUE, << >>, << >>, << >>, << >>)

\* x or y or 0 over optional integers: None and 0 are falsy.
OrElse(x, y) ==
    IF x # << >> /\ x[1] # 0 THEN x[1]
    ELSE IF y # << >> /\ y[1] # 0 THEN y[1]
    ELSE 0

\* Lines 178-180: the resolved (home, away) pair; raises when score is null,
\* since None has no .get.
ResolveScore(score) ==
    IF score.isNull THEN [raises |-> TRUE, home |-> 0, away |-> 0]
    ELSE [raises |-> FALSE,
          home |-> OrElse(score.ftHome, score.htHome),
          away |-> OrElse(score.ftAway, score.htAway)]

\* Event keys, token by token as the f-strings build them.
StartedKey(match_id) == << match_id, "_started" >>
ScoreKey(match_id, home_score, away_score) ==
    << match_id, "_score_", home_score, "_", away_score >>
FinishedKey(match_id) == << match_id, "_finished" >>

\* A variant of PrevScore that forgets what was stored.
PrevScoreForgotten(prev_scores, match_id) == << 0, 0 >>

\* previous_scores.get(match_id, {'home': 0, 'away': 0})
PrevScore(prev_scores, match_id) ==
    IF prev_scores[match_id] = << >> THEN << 0, 0 >> ELSE prev_scores[match_id]

\* Lines 128-145: what send_notification returns for a token, given the tokens
\* for which messaging.send raises; the exception is caught at line 143.
SendNotification(token, down_) == token \notin down_

\* One call of send_notification: the token, what the call returned, the data
\* dict (matchId, type, scorer, "" when the dict has none) and the score its
\* body text prints (<< >> for the kickoff text, which prints none).
Intent(token, delivered, match_id, type, scorer, score) ==
    [token |-> token, delivered |-> delivered, matchId |-> match_id, type |-> type,
     scorer |-> scorer, score |-> score]

\* A variant of FanOut that walks the device list backwards.
FanOutReversed(devices_, down_, match_id, type, scorer, score) ==
    [i \in 1..Len(devices_) |->
        Intent(devices_[Len(devices_) + 1 - i],
               SendNotification(devices_[Len(devices_) + 1 - i], down_),
               match_id, type, scorer, score)]

\* A variant of FanOut that gives up at the first send that fails.
FanOutUntilFailure(devices_, down_, match_id, type, scorer, score) ==
    LET reached == {i \in 1..Len(devices_) :
                        \A j \in 1..(i - 1) : SendNotification(devices_[j], down_)}
    IN  [i \in 1..Cardinality(reached) |->
            Intent(devices_[i], SendNotification(devices_[i], down_),
                   match_id, type, scorer, score)]

\* for device in devices: send_notification(device['token'], ...); what the
\* call returns is not looked at.
FanOut(devices_, down_, match_id, type, scorer, score) ==
    [i \in 1..Len(devices_) |->
        Intent(devices_[i], SendNotification(devices_[i], down_),
               match_id, type, scorer, score)]

\* A variant of TicketSettled that knows only one of the two statuses.
TicketSettledOnlyWon(status) == status = "won"

\* Line 160: the ticket is passed over as already settled.
TicketSettled(status) == status = "won" \/ status = "lost"

\* A variant of StartedFires without the look-up in notified_events.
StartedFiresUnguarded(notified, match) == match.status \in {"IN_PLAY", "LIVE"}

\* Line 190: the kickoff event fires.
StartedFires(notified, match) ==
    /\ match.status \in {"IN_PLAY", "LIVE"}
    /\ StartedKey(match.id) \notin notified

\* A variant of GoalScorer without the look-up in notified_events.
GoalScorerUnguarded(notified, prev, match, home_score, away_score) ==
    IF match.status \in {"IN_PLAY", "LIVE", "PAUSED"}
    THEN IF home_score > prev[1] THEN "home"
         ELSE IF away_score > prev[2] THEN "away"
         ELSE ""
    ELSE ""

\* A variant of GoalScorer that looks at the away side first.
GoalScorerAwayFirst(notified, prev, match, home_score, away_score) ==
    IF /\ match.status \in {"IN_PLAY", "LIVE", "PAUSED"}
       /\ ScoreKey(match.id, home_score, away_score) \notin notified
    THEN IF away_score > prev[2] THEN "away"
         ELSE IF home_score > prev[1] THEN "home"
         ELSE ""
    ELSE ""

\* Lines 202-223: the scorer of the goal event that fires, "" when none does.
GoalScorer(notified, prev, match, home_score, away_score) ==
    IF /\ match.status \in {"IN_PLAY", "LIVE", "PAUSED"}
       /\ ScoreKey(match.id, home_score, away_score) \notin notified
    THEN IF home_score > prev[1] THEN "home"
         ELSE IF away_score > prev[2] THEN "away"
         ELSE ""
    ELSE ""

\* A variant of FinishedFires that does not look the key up.
FinishedFiresUnguarded(notified, match) == match.status = "FINISHED"

\* Line 230: the finished event fires.
FinishedFires(notified, match) ==
    /\ match.status = "FINISHED"
    /\ FinishedKey(match.id) \notin notified

\* Lines 239-253: the won or lost fan-out.
ResultFanOut(devices_, down_, match_id, won, score) ==
    FanOut(devices_, down_, match_id, IF won THEN "won" ELSE "lost", "", score)

\* Lines 173-253, the body of the inner loop for a bet whose match was found:
\* the new caches, the intents sent in order, and whether an exception left
\* process_matches ("score": at line 179, with nothing done; "evaluate": at
\* line 237, after line 231 recorded the finished key).
BetOutcome(notified, prev_scores, devices_, down_, bet, match) ==
    LET sc == ResolveScore(match.score)
    IN  IF sc.raises
        THEN [raises |-> "score", notified |-> notified, prev_scores |-> prev_scores,
              sent |-> << >>, home |-> 0, away |-> 0, prev |-> << >>]
        ELSE
        LET h == sc.home
            a == sc.away
            prev == PrevScore(prev_scores, match.id)
            started == StartedFires(notified, match)
            n1 == IF started THEN notified \cup {StartedKey(match.id)} ELSE notified
            s1 == IF started THEN FanOut(devices_, down_, match.id, "started", "", << >>)
                  ELSE << >>
            scorer == GoalScorer(n1, prev, match, h, a)
            n2 == IF scorer # "" THEN n1 \cup {ScoreKey(match.id, h, a)} ELSE n1
            s2 == IF scorer # ""
                  THEN FanOut(devices_, down_, match.id, "goal", scorer, << h, a >>)
                  ELSE << >>
            p2 == [prev_scores EXCEPT ![match.id] = << h, a >>]
            finished == FinishedFires(n2, match)
            n3 == IF finished THEN n2 \cup {FinishedKey(match.id)} ELSE n2
            won == evaluate_bet(bet.selection, h, a, h + a)
            s3 == IF finished /\ ~won.raises
                  THEN ResultFanOut(devices_, down_, match.id, won.ret, << h, a >>)
                  ELSE << >>
        IN  [raises |-> IF finished /\ won.raises THEN "evaluate" ELSE "",
             notified |-> n3,
             prev_scores |-> p2,
             sent |-> s1 \o s2 \o s3,
             home |-> h, away |-> a, prev |-> prev]

\* ------------------------------------------------------------------ state
VARIABLES
    pc,                \* "sleep": line 353; "tickets": at the head of the outer loop of
                       \* process_matches; "bets": inside the loop over an open ticket's bets
    devices,           \* main's devices: the push tokens in list order
    matches,           \* main's matches, as far as read: id -> << >> or << record >>
    ticket,            \* the loop variable ticket: its status ("" before the first ticket)
    tno,               \* the number of that ticket among the open tickets with a bet
                       \* processed in this call
    notified_events,   \* the module-level set of event keys
    previous_scores,   \* the module-level dict: match id -> << >> (no entry) or << home, away >>
    raised,            \* the call of this cycle was left by an exception (caught at line 349)
    called,            \* this cycle called process_matches
    keep,              \* the tickets read are kept in log (SpecReplay)
    budget,            \* the bets a run may read for the first time (a bound)
    statuses,          \* the statuses the tickets of the run carry (a bound)
    outages,           \* the sets of tokens whose sends can fail in a cycle (a bound)
    down,              \* the tokens for which messaging.send raises in this cycle
    empty,             \* the lists this cycle fetched empty, by name
    log,               \* main's tickets, as far as read: the bets processed against a
                       \* match, in order, each with its ticket's number and status
    tail,              \* the tickets after log: "open" (unread), "owed" (at least one
                       \* more bet of an open ticket whose match is in the snapshot),
                       \* "closed" (none)
    rp,                \* the next entry of log to be read; Len(log) + 1 unless the call
                       \* is on the lists of the call before
    replay,            \* this cycle fetched the lists of the cycle before
    steps,             \* history: bets processed against a match and read for the first time
    sent,              \* history: the intents of the last step, in order
    observed,          \* history: << >>, or what the last step was: the bet processed
    undelivered,       \* history: << event key, token >> of the sends that failed
    fanouts,           \* history: per event key, the steps that fanned it out (counted to 2)
    cycle_sent,        \* history: intents sent so far in this cycle
    cycle_keys,        \* history: << key, ticket number >> of this cycle's fan-outs
    e_pc,              \* evaluator model: "call" before evaluate_bet ran, "done" after
    e_selection,       \* evaluator model: the arguments
    e_home,
    e_away,
    e_result,          \* evaluator model: what the call did
    e_score            \* score model: the 'score' object lines 178-180 resolve

pollVars == << pc, devices, matches, ticket, tno, notified_events, previous_scores, raised,
               called, keep, budget, statuses, outages, down, empty, log, tail, rp, replay,
               steps, sent, observed, undelivered, fanouts, cycle_sent, cycle_keys >>

evalVars == << e_pc, e_selection, e_home, e_away, e_result, e_score >>

vars == << pollVars, evalVars >>

\* ----------------------------------------------------- inputs of a cycle

\* Selection codes of the tickets of the polling model: home win, draw, and a
\* correct-score code whose numbers are not numbers.
Selections == {<< "1" >>, << "X" >>, << "C", "S", "x", "-", "y" >>}

\* The selection of a bet whose selection the code has not read (line 234 is
\* reached only when the finished event fires).
Unread == << "?" >>

\* The score objects of the polling model: null, or full-time numbers.
SnapshotScores ==
    {NullScore} \cup
    {ScoreObject(FALSE, << h >>, << a >>, << >>, << >>) : h, a \in 0..MaxScore}

\* What get_devices returns: no device, or MaxDevices tokens (the same one may
\* be registered twice); the first is tokA, the tokens being interchangeable.
DeviceLists == {<< >>} \cup {ds \in [1..MaxDevices -> Tokens] : ds[1] = "tokA"}

AllKeys ==
    {StartedKey(m) : m \in MatchIds} \cup {FinishedKey(m) : m \in MatchIds}
    \cup {ScoreKey(m, h, a) : m \in MatchIds, h \in 0..MaxScore, a \in 0..MaxScore}

\* The event key an intent belongs to.
KeyOf(intent) ==
    CASE intent.type = "started" -> StartedKey(intent.matchId)
      [] intent.type = "goal" -> ScoreKey(intent.matchId, intent.score[1], intent.score[2])
      [] OTHER -> FinishedKey(intent.matchId)

KeysOf(intents) == {KeyOf(intents[i]) : i \in 1..Len(intents)}

Bump(f, keys) == [k \in AllKeys |-> IF k \in keys /\ f[k] < 2 THEN f[k] + 1 ELSE f[k]]

\* ------------------------------------------------------------------- Init
EvalIdle ==
    /\ e_pc = "idle"
    /\ e_selection = << >>
    /\ e_home = 0
    /\ e_away = 0
    /\ e_result = Returns(FALSE)
    /\ e_score = NullScore

\* The process after init_firebase succeeded, before the first cycle.
Started ==
    /\ pc = "sleep"
    /\ devices = << >>
    /\ matches = [m \in MatchIds |-> << >>]
    /\ ticket = ""
    /\ tno = 0
    /\ notified_events = {}
    /\ previous_scores = [m \in MatchIds |-> << >>]
    /\ raised = FALSE
    /\ called = FALSE
    /\ log = << >>
    /\ tail = "closed"
    /\ rp = 1
    /\ replay = FALSE
    /\ steps = 0
    /\ sent = << >>
    /\ observed = << >>
    /\ fanouts = [k \in AllKeys |-> 0]
    /\ cycle_sent = 0
    /\ cycle_keys = {}
    /\ down = {}
    /\ empty = {}
    /\ undelivered = {}

\* Spec: tickets that are pending or won; what was read is forgotten.
Init ==
    /\ Started
    /\ keep = FALSE
    /\ budget = MaxSteps
    /\ statuses = {"pending", "won"}
    /\ outages = {{}}
    /\ EvalIdle

\* SpecReplay: tickets of any status; what was read is kept for the next cycle.
InitReplay ==
    /\ Started
    /\ keep = TRUE
    /\ budget = MaxKeptSteps
    /\ statuses = TicketStatuses
    /\ outages = {{}}
    /\ EvalIdle

\* ---------------------------------------------------------------- actions
\* A variant of CallsProcess that does not look at the device list.
CallsProcessWithoutDevices(has_matches, ds, has_tickets) == has_matches /\ has_tickets

\* Line 346: if matches and devices and tickets.
CallsProcess(has_matches, ds, has_tickets) == has_matches /\ ds # << >> /\ has_tickets

\* A variant of AfterBet in which the exception is not caught: the process ends.
AfterBetUncaught(raises) == IF raises # "" THEN "exit" ELSE "bets"

\* Where control is after the body of the inner loop ran for a bet: at the
\* next bet, or, when an exception left process_matches, past the handler of
\* line 349 at the sleep of line 353.
AfterBet(raises) == IF raises # "" THEN "sleep" ELSE "bets"

CycleStart ==
    /\ ticket' = ""
    /\ tno' = 0
    /\ rp' = 1
    /\ raised' = FALSE
    /\ sent' = << >>
    /\ observed' = << >>
    /\ cycle_sent' = 0
    /\ cycle_keys' = {}
    /\ UNCHANGED << notified_events, previous_scores, keep, budget, statuses, outages,
                    steps, undelivered, fanouts, evalVars >>

\* Lines 333-347 with freshly fetched lists: process_matches is called when
\* none of the three is empty (line 346). The three fetches never raise.
FetchNew ==
    /\ pc = "sleep"
    /\ \E ds \in DeviceLists, has_matches \in BOOLEAN, has_tickets \in BOOLEAN :
        LET calls == CallsProcess(has_matches, ds, has_tickets)
        IN  /\ devices' = ds
            /\ empty' = {"matches" : x \in {0} \ {IF has_matches THEN 0 ELSE 1}}
                         \cup {"devices" : x \in {0} \ {IF ds # << >> THEN 0 ELSE 1}}
                         \cup {"tickets" : x \in {0} \ {IF has_tickets THEN 0 ELSE 1}}
            /\ tail' = IF calls THEN "open" ELSE "closed"
            /\ called' = calls
            /\ pc' = IF calls THEN "tickets" ELSE "sleep"
            /\ down' \in (IF calls THEN outages ELSE {{}})
    /\ matches' = [m \in MatchIds |-> << >>]
    /\ log' = << >>
    /\ replay' = FALSE
    /\ CycleStart

\* Lines 333-347 when the three fetches return what they returned in the
\* cycle before, which called process_matches.
FetchSame ==
    /\ pc = "sleep"
    /\ keep
    /\ called
    /\ ~replay
    /\ replay' = TRUE
    /\ pc' = "tickets"
    /\ UNCHANGED << devices, matches, log, tail, called, down, empty >>
    /\ CycleStart

\* The call is re-reading the tickets the call before has read.
Rereading == rp <= Len(log)

\* What a step that processes no bet leaves alone.
Quiet ==
    UNCHANGED << devices, matches, tno, notified_events, previous_scores, raised, called,
                 keep, budget, statuses, outages, down, empty, log, tail, rp, replay, steps,
                 sent, observed, undelivered, fanouts, cycle_sent, cycle_keys, evalVars >>

\* Lines 159-161: the next ticket of the list is a settled one, and is passed
\* over (after the bets of the ticket before it are exhausted).
SkipTicket ==
    /\ pc \in {"tickets", "bets"}
    /\ ~Rereading
    /\ tail # "closed"
    /\ \E status \in statuses :
        /\ TicketSettled(status)
        /\ ticket' = status
    /\ pc' = "tickets"
    /\ Quiet

\* Lines 164-171: a bet of the open ticket without matchId, or whose match is
\* not in the snapshot.
SkipBet ==
    /\ pc = "bets"
    /\ ~Rereading
    /\ \E match_id \in {0, OtherId} :
        match_id = 0 \/ match_id \notin MatchIds
    /\ UNCHANGED << pc, ticket >>
    /\ Quiet

\* Line 234 is reached: the bet's selection is read.
ReadsSelection(notified, match) ==
    ~ResolveScore(match.score).raises /\ FinishedFires(notified, match)

\* Lines 164-253 for the bet of ticket number n with status st, whose match is
\* in the snapshot. An exception leaves process_matches and is caught at
\* line 349, which ends the cycle.
Process(n, st, bet, match) ==
    LET out == BetOutcome(notified_events, previous_scores, devices, down, bet, match)
    IN  /\ matches' = [matches EXCEPT ![match.id] = << match >>]
        /\ ticket' = st
        /\ tno' = n
        /\ notified_events' = out.notified
        /\ previous_scores' = out.prev_scores
        /\ sent' = out.sent
        /\ observed' = << [tno |-> n, ticket |-> st, bet |-> bet, match |-> match,
                           raises |-> out.raises, home |-> out.home, away |-> out.away,
                           prev |-> out.prev, before |-> notified_events] >>
        /\ undelivered' = undelivered \cup
                {<< KeyOf(out.sent[i]), out.sent[i].token >> :
                    i \in {j \in 1..Len(out.sent) : ~out.sent[j].delivered}}
        /\ fanouts' = Bump(fanouts, KeysOf(out.sent))
        /\ cycle_sent' = cycle_sent + Len(out.sent)
        /\ cycle_keys' = cycle_keys \cup {<< k, n >> : k \in KeysOf(out.sent)}
        /\ raised' = (out.raises # "")
        /\ pc' = AfterBet(out.raises)
        /\ UNCHANGED << devices, called, keep, budget, statuses, outages, down, empty,
                        replay, evalVars >>

\* The tickets a bet read for the first time can belong to: the open ticket
\* whose bets are being read (pc = "bets"), or the next open ticket of the list.
\* A ticket is open when line 160 does not pass it over.
NextTickets ==
    (IF pc = "bets" THEN {[tno |-> tno, status |-> ticket]} ELSE {})
    \cup {[tno |-> tno + 1, status |-> st] :
            st \in {s \in statuses : ~TicketSettled(s)}}

\* Match ids are names: the first match a run refers to is called 1.
InOrder(match_id) ==
    match_id = 1 \/ matches[1] # << >> \/ previous_scores[1] # << >>

\* The records the snapshot can hold for a match id: the one already read in
\* this cycle, or any.
RecordsOf(match_id) ==
    IF matches[match_id] # << >> THEN {matches[match_id][1]}
    ELSE [id : {match_id}, status : MatchStatuses, score : SnapshotScores]

\* The next bet is one the call reads for the first time.
ProcessNew ==
    /\ pc \in {"tickets", "bets"}
    /\ ~Rereading
    /\ tail # "closed"
    /\ steps < budget
    /\ \E match_id \in {m \in MatchIds : InOrder(m)} :
       \E match \in RecordsOf(match_id) :
       \E selection \in (IF ReadsSelection(notified_events, match)
                         THEN Selections ELSE {Unread}) :
       \E t \in NextTickets :
        LET bet == [matchId |-> match_id, selection |-> selection]
        IN  /\ Process(t.tno, t.status, bet, match)
            /\ log' = IF keep
                      THEN Append(log, [tno |-> t.tno, status |-> t.status, bet |-> bet])
                      ELSE log
            /\ rp' = Len(log') + 1
            /\ \E rest \in (IF keep /\ raised' THEN {"owed", "closed"} ELSE {"open"}) :
                tail' = rest
    /\ steps' = steps + 1

\* The next bet is one the call before has read: the lists are the same.
ProcessAgain ==
    /\ pc \in {"tickets", "bets"}
    /\ Rereading
    /\ Process(log[rp].tno, log[rp].status, log[rp].bet, matches[log[rp].bet.matchId][1])
    /\ rp' = rp + 1
    /\ UNCHANGED << log, tail, steps >>

\* process_matches returns: the ticket list is exhausted.
Return ==
    /\ pc \in {"tickets", "bets"}
    /\ ~Rereading
    /\ tail # "owed"
    /\ pc' = "sleep"
    /\ ticket' = ""
    /\ tail' = "closed"
    /\ sent' = << >>
    /\ observed' = << >>
    /\ UNCHANGED << devices, matches, tno, notified_events, previous_scores, raised,
                    called, keep, budget, statuses, outages, down, empty, log, rp, replay,
                    steps, undelivered, fanouts, cycle_sent, cycle_keys, evalVars >>

Next == FetchNew \/ SkipTicket \/ SkipBet \/ ProcessNew \/ Return

Spec == Init /\ [][Next]_vars

NextReplay == Next \/ FetchSame \/ ProcessAgain

\* Runs in which messaging.send can raise for the first token of the device
\* list during a whole cycle.
InitSend ==
    /\ Started
    /\ keep = FALSE
    /\ budget = MaxSendSteps
    /\ statuses = {"pending", "won"}
    /\ outages = {{}, {"tokA"}}
    /\ EvalIdle

SpecSend == InitSend /\ [][Next]_vars

\* The loop's progress. time.sleep returns and the three fetches return (the
\* requests carry timeouts and every fetch catches its exceptions), so a
\* sleeping loop goes on to the next cycle; the ticket list is finite, so a
\* call of process_matches that no exception leaves returns.
InitLive ==
    /\ Started
    /\ keep = FALSE
    /\ budget = MaxLiveSteps
    /\ statuses = {"pending", "won"}
    /\ outages = {{}}
    /\ EvalIdle

SpecLive == InitLive /\ [][Next]_vars /\ WF_vars(FetchNew) /\ WF_vars(Return)

SpecReplay == InitReplay /\ [][NextReplay]_vars

\* ------------------------------------------------------ the evaluator model
\* The selection codes evaluate_bet compares with '==' (lines 259-302).
FixedCodes ==
    {<< "1" >>, << "X" >>, << "2" >>, << "1", "X" >>, << "X", "2" >>, << "1", "2" >>,
     << "O", "1", ".", "5" >>, << "O", "2", ".", "5" >>, << "O", "3", ".", "5" >>,
     << "U", "1", ".", "5" >>, << "U", "2", ".", "5" >>, << "U", "3", ".", "5" >>,
     << "B", "T", "T", "S", "_", "Y" >>, << "B", "T", "T", "S", "_", "N" >>,
     << "H", "1", "-", "1" >>, << "H", "1", "+", "1" >>,
     << "H", "2", "-", "1" >>, << "H", "2", "+", "1" >>}

\* Characters of the other selection strings handed to evaluate_bet.
EvalAlphabet == {"0", "1", "2", "-", "+", "x", "y", "C", "S"}

EvalStrings == UNION {[1..n -> EvalAlphabet] : n \in 0..MaxSuffixLen}

\* Whitespace written around a number of a score code.
Pads == {<< >>, << "\t" >>, << " ", "\n" >>}

\* "CS" followed by two one-digit numbers, each with whitespace around it.
PaddedScoreCodes ==
    {<< "C", "S" >> \o l1 \o << h >> \o r1 \o << "-" >> \o l2 \o << a >> \o r2 :
        l1 \in Pads, r1 \in Pads, l2 \in Pads, r2 \in Pads,
        h \in {"0", "1"}, a \in {"0", "1"}}

\* The selection strings of the evaluator model: the fixed codes, short
\* strings, "CS" followed by a short string, and the padded score codes.
EvalSelections ==
    FixedCodes \cup EvalStrings \cup {<< "C", "S" >> \o s : s \in EvalStrings}
    \cup PaddedScoreCodes

\* A call of evaluate_bet as line 237 makes it, about to run.
InitEval ==
    /\ Started
    /\ keep = FALSE
    /\ budget = 0
    /\ statuses = {}
    /\ outages = {{}}
    /\ e_pc = "call"
    /\ e_selection \in EvalSelections
    /\ e_home \in 0..MaxEvalScore
    /\ e_away \in 0..MaxEvalScore
    /\ e_result = Returns(FALSE)
    /\ e_score = NullScore

\* Lines 235-237: total_goals = home_score + away_score; the call runs.
EvalCall ==
    /\ e_pc = "call"
    /\ e_result' = evaluate_bet(e_selection, e_home, e_away, e_home + e_away)
    /\ e_pc' = "done"
    /\ UNCHANGED << pollVars, e_selection, e_home, e_away, e_score >>

NextEval == EvalCall

SpecEval == InitEval /\ [][NextEval]_vars

\* ---------------------------------------------------------- the score model
\* A number of the score object, or none (null, or the key missing).
OptionalGoals == {<< >>} \cup {<< n >> : n \in 0..MaxEvalScore}

\* The score objects of the score model: null, or any four optional numbers.
ScoreObjects ==
    {NullScore} \cup
    {ScoreObject(FALSE, fh, fa, hh, ha) :
        fh \in OptionalGoals, fa \in OptionalGoals,
        hh \in OptionalGoals, ha \in OptionalGoals}

\* Line 178 has read the score object of a match; lines 179-180 are to run.
InitScore ==
    /\ Started
    /\ keep = FALSE
    /\ budget = 0
    /\ statuses = {}
    /\ outages = {{}}
    /\ e_pc = "resolve"
    /\ e_score \in ScoreObjects
    /\ e_selection = << >>
    /\ e_home = 0
    /\ e_away = 0
    /\ e_result = Returns(FALSE)

\* Lines 179-180: home_score and away_score are resolved, or line 179 raises.
ScoreCall ==
    /\ e_pc = "resolve"
    /\ LET resolved == ResolveScore(e_score)
       IN  /\ e_home' = resolved.home
           /\ e_away' = resolved.away
           /\ e_result' = [raises |-> resolved.raises, ret |-> FALSE]
    /\ e_pc' = "resolved"
    /\ UNCHANGED << pollVars, e_selection, e_score >>

NextScore == ScoreCall

SpecScore == InitScore /\ [][NextScore]_vars

\* ------------------------------------------- properties of the evaluator
\* A non-empty run of decimal digits, and the number it writes.
IsNumeral(p) == p # << >> /\ \A i \in 1..Len(p) : p[i] \in Digits

RECURSIVE NumeralValue(_)
NumeralValue(p) ==
    IF p = << >> THEN 0
    ELSE 10 * NumeralValue(SubSeq(p, 1, Len(p) - 1)) + DigitVal(p[Len(p)])

\* The text after the leading "CS" of a correct-score code, cut at each '-'.
SuffixParts(code) == Split(Drop(code, 3), "-")

\* CS<h>-<a> with h and a written as decimal numerals.
IsScoreCode(code) ==
    /\ StartsWith(code, << "C", "S" >>)
    /\ Len(SuffixParts(code)) = 2
    /\ IsNumeral(SuffixParts(code)[1])
    /\ IsNumeral(SuffixParts(code)[2])

\* The win condition the table of spec section 4.1 gives for a code, on
\* integer scores H, A with T = H + A.
TableWin(code, H, A) ==
    LET T == H + A
    IN  CASE code = << "1" >> -> H > A
          [] code = << "X" >> -> H = A
          [] code = << "2" >> -> A > H
          [] code = << "1", "X" >> -> ~(H < A)
          [] code = << "X", "2" >> -> ~(A < H)
          [] code = << "1", "2" >> -> H # A
          [] code = << "O", "1", ".", "5" >> -> T >= 2
          [] code = << "O", "2", ".", "5" >> -> T >= 3
          [] code = << "O", "3", ".", "5" >> -> T >= 4
          [] code = << "U", "1", ".", "5" >> -> T <= 1
          [] code = << "U", "2", ".", "5" >> -> T <= 2
          [] code = << "U", "3", ".", "5" >> -> T <= 3
          [] code = << "B", "T", "T", "S", "_", "Y" >> -> H > 0 /\ A > 0
          [] code = << "B", "T", "T", "S", "_", "N" >> -> H = 0 \/ A = 0
          [] code = << "H", "1", "-", "1" >> -> H - 1 > A
          [] code = << "H", "1", "+", "1" >> -> H + 1 > A
          [] code = << "H", "2", "-", "1" >> -> A - 1 > H
          [] code = << "H", "2", "+", "1" >> -> A + 1 > H
          [] OTHER -> H = NumeralValue(SuffixParts(code)[1])
                      /\ A = NumeralValue(SuffixParts(code)[2])

\* C5: for every code of the vocabulary (the fixed codes and CS<h>-<a> with
\* numerals h, a) and every pair of non-negative scores, evaluate_bet returns,
\* without raising, exactly the win condition of the table.
C5_EvaluatorMatchesTable ==
    (e_pc = "done" /\ (e_selection \in FixedCodes \/ IsScoreCode(e_selection)))
        => e_result = Returns(TableWin(e_selection, e_home, e_away))

\* evaluate_bet('CS1-2', 1, 2, 3) has returned True.
C5_Witness ==
    /\ e_pc = "done"
    /\ e_selection = << "C", "S", "1", "-", "2" >>
    /\ e_home = 1
    /\ e_away = 2
    /\ e_result = Returns(TRUE)

\* A part that writes an integer: a numeral, with an optional '+' in front
\* and optional whitespace around it.
IsIntegerText(p) ==
    \E i \in 1..Len(p) : \E j \in i..Len(p) :
        /\ \A k \in (1..(i - 1)) \cup ((j + 1)..Len(p)) : p[k] \in Whitespace
        /\ \/ IsNumeral(SubSeq(p, i, j))
           \/ (p[i] = "+" /\ IsNumeral(SubSeq(p, i + 1, j)))

\* A code that starts with "CS" and whose suffix is malformed: a number of
\* '-'-separated parts other than two, or a part that is no integer.
MalformedScoreCode(code) ==
    /\ StartsWith(code, << "C", "S" >>)
    /\ \/ Len(SuffixParts(code)) # 2
       \/ \E i \in 1..2 : ~IsIntegerText(SuffixParts(code)[i])

\* C6 (as stated): evaluate_bet on a code that starts with "CS" and has a
\* malformed suffix returns False and does not raise.
C6_MalformedReturnsFalse ==
    (e_pc = "done" /\ MalformedScoreCode(e_selection)) => e_result = Returns(FALSE)

\* evaluate_bet('CSx-y', 0, 0, 0) was left by the ValueError of int('x').
C6_Witness ==
    /\ e_pc = "done"
    /\ e_selection = << "C", "S", "x", "-", "y" >>
    /\ e_home = 0
    /\ e_away = 0
    /\ e_result = Raises

\* C7: for every selection string that is none of the fixed codes and does
\* not start with "CS", and every score pair, evaluate_bet returns False
\* without raising, and neither cache has changed.
C7_UnknownCodeLoses ==
    (e_pc = "done" /\ e_selection \notin FixedCodes
                  /\ ~StartsWith(e_selection, << "C", "S" >>))
        => /\ e_result = Returns(FALSE)
           /\ notified_events = {}
           /\ previous_scores = [m \in MatchIds |-> << >>]

\* evaluate_bet('1x2', 2, 0, 2) has run.
C7_Witness ==
    /\ e_pc = "done"
    /\ e_selection = << "1", "x", "2" >>
    /\ e_home = 2
    /\ e_away = 0

\* ---------------------------------------- properties of the polling model
\* The last step processed a bet against a match (lines 173-253), to the end
\* or until an exception.
Stepped == observed # << >>

\* That step: ticket number and status, bet, match record, resolved score,
\* previous score, and notified_events as the step found it.
Step == observed[1]

TypesSent == {sent[i].type : i \in 1..Len(sent)}

\* The intents of one event key sent in the last step, in order.
IntentsOf(key) == SelectSeq(sent, LAMBDA intent : KeyOf(intent) = key)

\* The last step fanned the event out: one intent of that type per entry of
\* the device list, in list order, for the step's match.
FannedOut(key, types) ==
    /\ Len(IntentsOf(key)) = Len(devices)
    /\ \A i \in 1..Len(devices) :
        /\ IntentsOf(key)[i].token = devices[i]
        /\ IntentsOf(key)[i].matchId = Step.match.id
        /\ IntentsOf(key)[i].type \in types

\* C1: a goal notification for a match and a resulting score is fanned out in
\* at most one bet-processing step; a step that observes a score whose key is
\* already in notified_events sends no goal notification.
C1_GoalAtMostOncePerScore ==
    /\ \A m \in MatchIds, h \in 0..MaxScore, a \in 0..MaxScore :
        fanouts[ScoreKey(m, h, a)] <= 1
    /\ (Stepped /\ Step.raises # "score"
                /\ ScoreKey(Step.match.id, Step.home, Step.away) \in Step.before)
        => "goal" \notin TypesSent

\* A match in play is seen at 1-0 after 0-0, and the goal at 1-0 had been
\* notified before the score went back to 0-0: nothing is sent for it now.
C1_Witness ==
    /\ Stepped
    /\ Step.match.status \in {"IN_PLAY", "LIVE", "PAUSED"}
    /\ Step.home = 1
    /\ Step.away = 0
    /\ Step.prev = << 0, 0 >>
    /\ ScoreKey(Step.match.id, 1, 0) \in Step.before
    /\ fanouts[ScoreKey(Step.match.id, 1, 0)] = 1
    /\ "goal" \notin TypesSent

\* C2 (as stated): the 'started' notification of a match is fanned out in at
\* most one bet-processing step, only in a step where the match is LIVE or
\* IN_PLAY, and in the first step that processes an open ticket's bet on the
\* match while it has such a status (a step that finds the key unrecorded).
C2_StartedOnceAtFirstLiveStep ==
    /\ \A m \in MatchIds : fanouts[StartedKey(m)] <= 1
    /\ (Stepped /\ "started" \in TypesSent) => Step.match.status \in {"LIVE", "IN_PLAY"}
    /\ (Stepped /\ Step.match.status \in {"LIVE", "IN_PLAY"}
                /\ StartedKey(Step.match.id) \notin Step.before)
        => FannedOut(StartedKey(Step.match.id), {"started"})

\* A match IN_PLAY whose score is null, never seen in play before: the step
\* was left at line 179 and no 'started' notification went out.
C2_Witness ==
    /\ Stepped
    /\ Step.match.status = "IN_PLAY"
    /\ Step.match.score = NullScore
    /\ StartedKey(Step.match.id) \notin Step.before
    /\ Step.raises = "score"
    /\ sent = << >>

\* C4 (as stated): a step that processes a bet against a FINISHED match whose
\* finished key is not recorded sends every device exactly one intent for the
\* match: 'won' if evaluate_bet returns True, otherwise 'lost'.
C4_FinishedSendsOneResultPerDevice ==
    (Stepped /\ Step.match.status = "FINISHED"
             /\ FinishedKey(Step.match.id) \notin Step.before)
        => /\ Len(sent) = Len(devices)
           /\ FannedOut(FinishedKey(Step.match.id),
                        IF evaluate_bet(Step.bet.selection, Step.home, Step.away,
                                        Step.home + Step.away) = Returns(TRUE)
                        THEN {"won"} ELSE {"lost"})

\* A FINISHED match, a bet with selection 'CSx-y': line 231 has recorded the
\* finished key, evaluate_bet has raised, and no device got a result.
C4_Witness ==
    /\ Stepped
    /\ Step.match.status = "FINISHED"
    /\ FinishedKey(Step.match.id) \notin Step.before
    /\ Step.bet.selection = << "C", "S", "x", "-", "y" >>
    /\ Step.raises = "evaluate"
    /\ FinishedKey(Step.match.id) \in notified_events
    /\ sent = << >>

\* C8: a ticket whose status is won or lost (stored as 'won', 'lost') has
\* none of its bets processed, whatever the snapshot holds, and passing it
\* over changes neither notified_events nor previous_scores and sends nothing.
C8_SettledTicketPassedOver ==
    [][ /\ (observed' # << >>) => observed'[1].ticket \notin {"won", "lost"}
        /\ (pc' = "tickets" /\ ticket' \in {"won", "lost"})
            => UNCHANGED << notified_events, previous_scores, fanouts, cycle_sent >> ]_vars

\* A 'lost' ticket heads the list of a cycle: it is passed over.
C8_Witness ==
    /\ pc = "tickets"
    /\ ticket = "lost"
    /\ called
    /\ cycle_sent = 0
    /\ notified_events = {}

\* C9 (amended): when bets of two open tickets of one cycle are on the same
\* match, each event of the match is fanned out to every device once, in the
\* step of the first of the bets; a step never fans out an event whose key it
\* found recorded.
C9_EventFansOutOncePerCycle ==
    /\ \A c1 \in cycle_keys, c2 \in cycle_keys : c1[1] = c2[1] => c1[2] = c2[2]
    /\ Stepped => \A k \in KeysOf(sent) :
                    /\ k \notin Step.before
                    /\ FannedOut(k, {"started", "goal", "won", "lost"})

\* The second open ticket of a cycle has a bet on a match in play whose
\* kickoff was fanned out in the step of the first ticket: it sends none.
C9_Witness ==
    /\ Stepped
    /\ Step.tno = 2
    /\ Step.match.status \in {"IN_PLAY", "LIVE"}
    /\ << StartedKey(Step.match.id), 1 >> \in cycle_keys
    /\ "started" \notin TypesSent

\* C9 (as stated): an event of a match fanned out in the step of the first
\* open ticket is fanned out again in the step of the second ticket's bet on
\* the same match.
C9_BothTicketsFanOut ==
    (Stepped /\ Step.tno = 2)
        => \A k \in AllKeys :
            (k[1] = Step.match.id /\ << k, 1 >> \in cycle_keys) => << k, 2 >> \in cycle_keys

\* C3 (as stated): a cycle that runs process_matches on the lists of the
\* cycle before sends no notification.
C3_ReplaySendsNothing == replay => cycle_sent = 0

\* The second pass over the same lists has sent notifications, after a first
\* pass that recorded the finished key of match 1 and then left at line 237.
C3_Witness ==
    /\ replay
    /\ cycle_sent > 0
    /\ FinishedKey(1) \in notified_events
    /\ fanouts[FinishedKey(1)] = 0
    /\ Len(log) = 2
    /\ log[1].bet.selection = << "C", "S", "x", "-", "y" >>

\* C10 (as stated): when the call of a cycle is over, no bet of an open ticket
\* whose match is in the snapshot is left unprocessed.
C10_NoBetLeftUnprocessed == (pc = "sleep" /\ called) => tail # "owed"

\* A bet with selection 'CSx-y' on a FINISHED match ended the call, with a
\* later bet on a match of the snapshot still to come.
C10_Witness ==
    /\ pc = "sleep"
    /\ raised
    /\ Stepped
    /\ Step.raises = "evaluate"
    /\ Step.bet.selection = << "C", "S", "x", "-", "y" >>
    /\ tail = "owed"

\* C11 (as stated): a step that processes a bet with an invalid selection
\* code against a FINISHED match whose finished key is not recorded fans out
\* 'lost' to every device, and the finished key of a match is never recorded
\* without a won or lost fan-out for the match.
C11_InvalidCodeLosesAndKeyMeansFanOut ==
    /\ (Stepped /\ Step.match.status = "FINISHED"
                /\ FinishedKey(Step.match.id) \notin Step.before
                /\ Step.bet.selection \notin FixedCodes)
        => FannedOut(FinishedKey(Step.match.id), {"lost"})
    /\ \A m \in MatchIds :
        FinishedKey(m) \in notified_events => fanouts[FinishedKey(m)] >= 1

\* The cycle is over and the finished key of match 1 is recorded, but no won
\* or lost notification for match 1 was ever sent: the bet that recorded it
\* had selection 'CSx-y'.
C11_Witness ==
    /\ pc = "sleep"
    /\ raised
    /\ FinishedKey(1) \in notified_events
    /\ fanouts[FinishedKey(1)] = 0
    /\ Stepped
    /\ Step.bet.selection = << "C", "S", "x", "-", "y" >>

\* The goal intents of the last step, in order.
GoalsSent == SelectSeq(sent, LAMBDA intent : intent.type = "goal")

\* C12: a step fires at most one goal event. It fires only with status LIVE,
\* IN_PLAY or PAUSED and the key of the resulting score unrecorded; the scorer
\* is home when the home score exceeds the previous home score, else away
\* when the away score exceeds the previous away score; otherwise no goal is
\* sent and the score key is not recorded.
C12_OneGoalHomeFirst ==
    (Stepped /\ Step.raises # "score") =>
        LET key == ScoreKey(Step.match.id, Step.home, Step.away)
            may == /\ Step.match.status \in {"LIVE", "IN_PLAY", "PAUSED"}
                   /\ key \notin Step.before
            who == CASE may /\ Step.home > Step.prev[1] -> {"home"}
                     [] may /\ ~(Step.home > Step.prev[1])
                            /\ Step.away > Step.prev[2] -> {"away"}
                     [] OTHER -> {}
        IN  /\ {GoalsSent[i].scorer : i \in 1..Len(GoalsSent)} = who
            /\ Len(GoalsSent) = Len(devices) * Cardinality(who)
            /\ \A i \in 1..Len(GoalsSent) :
                GoalsSent[i].score = << Step.home, Step.away >>
            /\ (key \in notified_events) <=> (key \in Step.before \/ who # {})

\* A match in play goes from 0-0 (never seen) to 1-1 in one step: a single
\* goal event, attributed to home.
C12_Witness ==
    /\ Stepped
    /\ Step.match.status = "IN_PLAY"
    /\ Step.prev = << 0, 0 >>
    /\ Step.home = 1
    /\ Step.away = 1
    /\ Len(GoalsSent) = Len(devices)
    /\ \A i \in 1..Len(GoalsSent) : GoalsSent[i].scorer = "home"

\* C13: a step that processes a bet against a match and resolves its score
\* uses as previous score the pair stored for the match, (0,0) when none is
\* stored, and stores the observed pair for that match, whatever the status
\* and whether or not a goal fired; nothing else writes previous_scores.
C13_ScoreTracker ==
    [][ /\ (steps' # steps /\ observed'[1].raises # "score") =>
            LET m == observed'[1].match.id
            IN  /\ observed'[1].prev = IF previous_scores[m] = << >> THEN << 0, 0 >>
                                       ELSE previous_scores[m]
                /\ previous_scores'[m] = << observed'[1].home, observed'[1].away >>
                /\ \A o \in MatchIds \ {m} : previous_scores'[o] = previous_scores[o]
        /\ (steps' = steps \/ observed'[1].raises = "score")
            => previous_scores' = previous_scores ]_vars

\* A match seen at 1-0 is seen FINISHED at 1-1: the step used (1,0) as the
\* previous score, sent no goal, and stored (1,1).
C13_Witness ==
    /\ Stepped
    /\ Step.match.status = "FINISHED"
    /\ Step.prev = << 1, 0 >>
    /\ Step.home = 1
    /\ Step.away = 1
    /\ "goal" \notin TypesSent
    /\ previous_scores[Step.match.id] = << 1, 1 >>

\* The full-time number when there is one, else the half-time number when
\* there is one, else 0.
FullTimeFirst(full, half) ==
    IF full # << >> THEN full[1] ELSE IF half # << >> THEN half[1] ELSE 0

\* C14 (as stated): each side's resolved score is the full-time field when it
\* is present (0 included), the half-time field only when the full-time field
\* is absent, and 0 when both are absent.
C14_FullTimeFieldWins ==
    (e_pc = "resolved" /\ ~e_score.isNull)
        => /\ e_result.raises = FALSE
           /\ e_home = FullTimeFirst(e_score.ftHome, e_score.htHome)
           /\ e_away = FullTimeFirst(e_score.ftAway, e_score.htAway)

\* Full time 0-0 with half time 1-0: the home score was resolved to 1.
C14_Witness ==
    /\ e_pc = "resolved"
    /\ e_score = ScoreObject(FALSE, << 0 >>, << 0 >>, << 1 >>, << 0 >>)
    /\ e_home = 1
    /\ e_away = 0


\* C15: within a cycle bets are processed ticket by ticket in list order (no
\* event of the cycle comes from a ticket after the one being processed); the
\* intents of a step are, for each event it detected, exactly one per entry
\* of the device list in list order, duplicates included, the intents of one
\* event next to each other; and every 'started' intent of a step precedes
\* every 'goal' intent of it.
C15_IntentsInInputOrder ==
    Stepped =>
        /\ \A kt \in cycle_keys : kt[2] <= Step.tno
        /\ \A key \in KeysOf(sent) : FannedOut(key, {"started", "goal", "won", "lost"})
        /\ Len(sent) = Len(devices) * Cardinality(KeysOf(sent))
        /\ \A i \in 1..Len(sent) : \A j \in i..Len(sent) :
            /\ KeyOf(sent[i]) = KeyOf(sent[j])
                => \A k \in i..j : KeyOf(sent[k]) = KeyOf(sent[i])
            /\ sent[i].type = "goal" => sent[j].type # "started"

\* A step with the same token twice in the device list detects kickoff and a
\* goal: four intents, the two 'started' ones first.
C15_Witness ==
    /\ Stepped
    /\ devices = << "tokA", "tokA" >>
    /\ Len(sent) = 4
    /\ sent[1].type = "started" /\ sent[2].type = "started"
    /\ sent[3].type = "goal" /\ sent[4].type = "goal"
    /\ Step.tno = 2


\* C16: a send that fails returns False and raises nothing: the call goes on
\* unless the score or the evaluator raised; the fan-out still
\* has one intent per entry of the device list, each delivered exactly when
\* its token's send did not fail; the key of a failed send is recorded; and no
\* key is fanned out in a second step, so a failed notification is never sent
\* again.
C16_FailedSendNotRetried ==
    /\ \A key \in AllKeys : fanouts[key] <= 1
    /\ \A failed \in undelivered : failed[1] \in notified_events
    /\ Stepped =>
        /\ (pc = "sleep") <=> (Step.raises # "")
        /\ \A key \in KeysOf(sent) :
            /\ FannedOut(key, {"started", "goal", "won", "lost"})
            /\ key \notin Step.before
            /\ key \in notified_events
        /\ \A i \in 1..Len(sent) : sent[i].delivered <=> sent[i].token \notin down

\* The kickoff notification of match 1 failed for tokA; in a later cycle, with
\* working sends, a bet on the match, still in play, is processed and nothing
\* is sent.
C16_Witness ==
    /\ << StartedKey(1), "tokA" >> \in undelivered
    /\ << StartedKey(1), "tokB" >> \notin undelivered
    /\ fanouts[StartedKey(1)] = 1
    /\ down = {}
    /\ devices = << "tokA", "tokB" >>
    /\ Stepped
    /\ Step.match.id = 1
    /\ Step.match.status = "IN_PLAY"
    /\ Step.raises = ""
    /\ sent = << >>


\* The 'won' and 'lost' intents of the last step, in order.
ResultsSent == SelectSeq(sent, LAMBDA intent : intent.type \in {"won", "lost"})

\* C17: per match at most one step ever fans out a result. A step sends
\* 'won' or 'lost' intents only when it finds the match FINISHED with its
\* finished key not recorded, and then one per device, of the type its own
\* bet's selection evaluates to; every step that reaches the finished check
\* with the match FINISHED leaves the key recorded, and a step that finds the
\* key recorded sends no result whatever its bet's selection.
C17_OneEvaluationPerMatch ==
    /\ \A m \in MatchIds : fanouts[FinishedKey(m)] <= 1
    /\ Stepped =>
        LET key == FinishedKey(Step.match.id)
        IN  /\ ResultsSent # << >> =>
                /\ Step.match.status = "FINISHED"
                /\ key \notin Step.before
                /\ Len(ResultsSent) = Len(devices)
                /\ FannedOut(key,
                             IF evaluate_bet(Step.bet.selection, Step.home, Step.away,
                                             Step.home + Step.away) = Returns(TRUE)
                             THEN {"won"} ELSE {"lost"})
            /\ key \in Step.before => ResultsSent = << >>
            /\ (Step.match.status = "FINISHED" /\ Step.raises # "score")
                => key \in notified_events

\* The result of match 1 has been fanned out once; a later bet on the match,
\* finished 0-0, is processed, and nothing is sent for it (its selection is
\* not even read).
C17_Witness ==
    /\ Stepped
    /\ Step.match.id = 1
    /\ Step.match.status = "FINISHED"
    /\ Step.home = 0 /\ Step.away = 0
    /\ FinishedKey(1) \in Step.before
    /\ fanouts[FinishedKey(1)] = 1
    /\ Step.raises = ""
    /\ sent = << >>


\* C18: a cycle that fetched an empty matches, devices or tickets list does
\* not call process_matches: it goes straight to the sleep, sends nothing,
\* and leaves notified_events and previous_scores as they were (no key is
\* recorded, none is fanned out).
C18_EmptyListSkipsProcessing ==
    [][empty' # {} =>
        /\ ~called'
        /\ pc' = "sleep"
        /\ ~Stepped'
        /\ cycle_sent' = 0
        /\ UNCHANGED << notified_events, previous_scores, fanouts >>]_vars

\* Keys are recorded and a score is stored; the cycle fetched no device, with
\* matches and tickets present, and sleeps without having called
\* process_matches.
C18_Witness ==
    /\ empty = {"devices"}
    /\ ~called
    /\ pc = "sleep"
    /\ notified_events # {}
    /\ previous_scores[1] # << >>
    /\ cycle_sent = 0


\* C19: the loop is always at the sleep or inside process_matches, never
\* ended; cycles start again and again, and a cycle that raised is followed
\* by a next one; while process_matches runs no fetch happens, so cycles do
\* not overlap.
C19_LoopKeepsCycling ==
    /\ [](pc \in {"sleep", "tickets", "bets"})
    /\ []<><<FetchNew>>_vars
    /\ (raised ~> ~raised)
    /\ [][pc # "sleep" => UNCHANGED << devices, down, empty, called >>]_vars

\* evaluate_bet raised in an earlier cycle (the finished key of match 1 is
\* recorded and was never fanned out), and a later cycle has called
\* process_matches.
C19_Witness ==
    /\ pc = "tickets"
    /\ tno = 0
    /\ called
    /\ ~raised
    /\ FinishedKey(1) \in notified_events
    /\ fanouts[FinishedKey(1)] = 0

====
